---- MODULE Spec2Model ----
(***************************************************************************)
(* lumen: the Monitor component (src/lumen/monitor.py) and the loading     *)
(* wrapper App (src/app/dashboard_app.py), as state machines.              *)
(*                                                                         *)
(* Monitor: a facet cross-product is mapped to cached views, the cards are *)
(* sorted by metric values, and refresh is periodic or on demand.          *)
(* App: a spinner is shown until a one-shot callback has built the         *)
(* dashboard or an HTML error message.                                     *)
(***************************************************************************)
EXTENDS Integers, Sequences, FiniteSets

VARIABLES
    \* ---- Monitor parameters (monitor.py 20-50)
    filters,         \* Monitor.filters: the list of filter entries
    metrics,         \* Monitor.metrics: the list of metric specs (by name)
    sort_fields,     \* Monitor.sort_fields
    sort_reverse,    \* Monitor.sort_reverse
    refresh_rate,    \* Monitor.refresh_rate: {} is None, {r} is the rate r
    \* ---- Monitor private state (monitor.py 57-77)
    sort_widget,     \* _sort_widget.value
    reverse_widget,  \* _reverse_widget.value
    reload_handler,  \* the on_click handler of _reload_button
    cards,           \* _cards, what Monitor.panels returns
    cache,           \* _cache: metric_key -> view
    stale,           \* _stale
    cb,              \* _cb: {} is None, {i} is callbacks[i]
    watchers,        \* indices of the filters whose 'value' _rerender watches
    \* ---- the Monitor's environment
    fvalue,          \* the current 'value' of every entry of filters
    source,          \* which table the Source currently serves
    callbacks,       \* the periodic callbacks registered with pn.state
    next_id,         \* identity of the next view object constructed
    pending,         \* watcher call dispatched by the last 'value' event
    trace,           \* the handler that ran last and the calls it made; <<>>
                     \* after an event that ran no handler of the Monitor
    \* ---- App (dashboard_app.py 26-47)
    dashboard,       \* App.dashboard
    scheduled,       \* one-shot App.update callbacks not yet run
    shown,           \* what the last App.main returned
    escaped,         \* TRUE once an exception has left App.update
    stdout,          \* the line App.update printed last
    last             \* which of App.main and App.update ran last

monitorVars == <<filters, metrics, sort_fields, sort_reverse, refresh_rate,
                 sort_widget, reverse_widget, reload_handler, cards, cache,
                 stale, cb, watchers, fvalue, source, callbacks,
                 next_id, pending, trace>>
appVars == <<dashboard, scheduled, shown, escaped, stdout, last>>
vars == <<monitorVars, appVars>>

(***************************************************************************)
(* Bounds.                                                                 *)
(***************************************************************************)
MaxRate == 2            \* refresh rates are 1..MaxRate
MaxCallbacks == 2       \* registered periodic callbacks kept in the model
MaxWidgetValue == 1     \* a widget filter's value is 0..MaxWidgetValue
MaxSched == 5           \* one-shot callbacks pending at once
MaxErrors == 3          \* distinct construction errors

Rates == 1..MaxRate
WidgetValues == 0..MaxWidgetValue
Errors == 1..MaxErrors

(***************************************************************************)
(* Values, filters and the Source.                                         *)
(***************************************************************************)
\* A filter value carries its Python type; str() drops it.
VA == [t |-> "str", s |-> "a"]
VB == [t |-> "str", s |-> "b"]
VC == [t |-> "str", s |-> "c"]
VD == [t |-> "str", s |-> "d"]
I1 == [t |-> "int", s |-> "1"]
S1 == [t |-> "str", s |-> "1"]

\* str(f.value): 1 and "1" both give "1".
Str(v) == v.s

SubFilter(fld, v) == [field |-> fld, label |-> fld, value |-> v]

WidgetFilter == [facet |-> FALSE, label |-> "w", filters |-> <<>>]
FacetX == [facet |-> TRUE, label |-> "x",
           filters |-> <<SubFilter("x", VA), SubFilter("x", VB)>>]
FacetY == [facet |-> TRUE, label |-> "y",
           filters |-> <<SubFilter("y", VC), SubFilter("y", VD)>>]
FacetNone == [facet |-> TRUE, label |-> "x", filters |-> <<>>]
FacetNum == [facet |-> TRUE, label |-> "x",
             filters |-> <<SubFilter("x", I1), SubFilter("x", S1)>>]

\* The filter lists a Monitor is built with.
FilterConfigs ==
    { <<>>, <<WidgetFilter>>, <<FacetX>>, <<FacetX, WidgetFilter, FacetY>>,
      <<FacetNone>>, <<FacetNum>> }

\* The metric lists a Monitor is built with: the 'name' of each metric spec.
MetricConfigs == { <<>>, <<"m1">>, <<"m1", "m2">>, <<"m1", "m1">> }

\* The values of sort['fields'] a Monitor is built with.
SortConfigs == { <<>>, <<"m1">>, <<"m2", "m1">>, <<"zz">> }

Row(n, x, y, w, m1, m2) ==
    [id |-> n, x |-> x, y |-> y, w |-> w, m1 |-> m1, m2 |-> m2]

TableA == { Row(1, VA, VC, 1, 1, 0), Row(2, VA, VD, 0, 1, 1),
            Row(3, VB, VC, 1, 0, 1), Row(4, VB, VD, 1, 1, 0),
            Row(5, I1, VC, 1, 2, 0), Row(6, S1, VC, 1, 1, 0) }
TableB == { Row(1, VA, VC, 0, 2, 2), Row(3, VB, VC, 1, 1, 0),
            Row(4, VB, VD, 0, 1, 0), Row(5, I1, VC, 1, 0, 1) }
TableE == {}

\* The tables the Source can hold after a Source.update().
Tables == <<TableA, TableB, TableE>>

RECURSIVE SumCol(_, _)
SumCol(rows, col) ==
    IF rows = {} THEN 0
    ELSE LET r == CHOOSE q \in rows : TRUE
         IN  r[col] + SumCol(rows \ {r}, col)

\* A widget filter with value 0 selects every row, with value v > 0 the rows
\* whose column w is v.
WidgetMatch(r, v) == v = 0 \/ r.w = v

\* The rows a view sees: those of the table that pass every non-facet filter
\* at its current value and every facet sub-filter the view was built with.
RowsOf(tbl, flts, fv, facet_filters) ==
    { r \in tbl :
        /\ \A i \in 1..Len(flts) : flts[i].facet \/ WidgetMatch(r, fv[i])
        /\ \A j \in 1..Len(facet_filters) :
              r[facet_filters[j].field] = facet_filters[j].value }

\* What a view holds after it has queried the Source: a view with no rows is
\* falsy, get_value() is the sum of the metric's column.
Fetch(env, facet_filters, name) ==
    LET rows == RowsOf(Tables[env.source], env.filters, env.fvalue, facet_filters)
    IN  [empty |-> rows = {}, value |-> SumCol(rows, name)]

(***************************************************************************)
(* Monitor._update_metrics (monitor.py 112-167).                           *)
(***************************************************************************)
\* facets = [filt.filters for filt in self.filters if isinstance(filt, FacetFilter)]
Facets(flts) ==
    LET fs == SelectSeq(flts, LAMBDA f : f.facet)
    IN  [i \in 1..Len(fs) |-> fs[i].filters]

\* itertools.product(*facets): the last facet varies fastest, no facet gives
\* the one empty combination.
\* Every combination of rest behind each element of xs, in the order of xs.
RECURSIVE Prepend(_, _)
Prepend(xs, rest) ==
    IF xs = <<>> THEN <<>>
    ELSE [i \in 1..Len(rest) |-> <<Head(xs)>> \o rest[i]]
         \o Prepend(Tail(xs), rest)

RECURSIVE Product(_)
Product(facets) ==
    IF facets = <<>> THEN << <<>> >>
    ELSE Prepend(Head(facets), Product(Tail(facets)))

\* key = tuple(str(f.value) for f in facet_filters)
Key(facet_filters) ==
    [i \in 1..Len(facet_filters) |-> Str(facet_filters[i].value)]

\* metric_key = key+(metric['name'],)
MetricKey(facet_filters, name) == Key(facet_filters) \o <<name>>

\* Mutant: the cache is never consulted.
NotInCacheAlways(c, metric_key) == TRUE

\* metric_key not in self._cache
NotInCache(c, metric_key) == metric_key \notin DOMAIN c

Event(op, key, rerender) == [op |-> op, key |-> key, rerender |-> rerender]

\* metric.update(rerender=False)
ViewUpdateCall(metric_key) == Event("view.update", metric_key, FALSE)

\* One round of the loop over self.metrics (lines 123-139): the view is
\* constructed and cached, or taken from the cache and updated; a truthy view
\* joins the card's metrics.
MetricStep(env, facet_filters, name, st) ==
    LET metric_key == MetricKey(facet_filters, name)
        fresh == NotInCache(st.cache, metric_key)
        built == Fetch(env, facet_filters, name)
        old == st.cache[metric_key]
        again == Fetch(env, old.facet_filters, old.name)
        view == IF fresh
                THEN [id |-> st.next_id, name |-> name,
                      facet_filters |-> facet_filters,
                      empty |-> built.empty, value |-> built.value]
                ELSE [old EXCEPT !.empty = again.empty, !.value = again.value]
    IN  [cache |-> [k \in DOMAIN st.cache \cup {metric_key} |->
                        IF k = metric_key THEN view ELSE st.cache[k]],
         next_id |-> IF fresh THEN st.next_id + 1 ELSE st.next_id,
         trace |-> Append(st.trace,
                          IF fresh THEN Event("View", metric_key, FALSE)
                          ELSE ViewUpdateCall(metric_key)),
         metrics |-> IF view.empty THEN st.metrics
                     ELSE Append(st.metrics, metric_key),
         cards |-> st.cards]

\* The loops below hand each round's result to the next round as a value
\* (bound by "\in {...}"), so that a round is evaluated once.
RECURSIVE MetricLoop(_, _, _, _)
MetricLoop(env, facet_filters, i, st) ==
    IF i > Len(env.metrics) THEN st
    ELSE CHOOSE r \in { MetricLoop(env, facet_filters, i + 1, s) :
                          s \in {MetricStep(env, facet_filters, env.metrics[i], st)} } :
             TRUE

\* Lines 143-147: the values of the card's metrics named by sort_fields; a
\* field no metric of the card is named after adds nothing.
RECURSIVE SortKey(_, _, _)
SortKey(fields, ms, c) ==
    IF fields = <<>> THEN <<>>
    ELSE LET values == SelectSeq(ms, LAMBDA k : c[k].name = Head(fields))
         IN  (IF values = <<>> THEN <<>> ELSE <<c[values[1]].value>>)
             \o SortKey(Tail(fields), ms, c)

\* Lines 149-152: ' '.join(f'{f.label}: {f.value}' ...) or self.title, as the
\* list of the words joined.
RECURSIVE FacetTitle(_)
FacetTitle(facet_filters) ==
    IF facet_filters = <<>> THEN <<>>
    ELSE <<Head(facet_filters).label, Str(Head(facet_filters).value)>>
         \o FacetTitle(Tail(facet_filters))

CardTitle(env, facet_filters) ==
    IF facet_filters # <<>> THEN FacetTitle(facet_filters) ELSE <<env.title>>

\* Mutant: the "continue" of line 140 is lost.
HasMetricsAlways(ms) == TRUE

\* Line 140: "if not metrics: continue" lets only a non-empty list through.
HasMetrics(ms) == ms # <<>>

\* One round of the loop over product(*facets) (lines 119-162). A card records
\* the place of its combination in the enumeration and its sort key.
NewCard(env, facet_filters, j, after) ==
    [combo |-> j,
     title |-> CardTitle(env, facet_filters),
     views |-> after.metrics,
     sort_key |-> SortKey(env.sort_fields, after.metrics, after.cache)]

ComboStep(env, combos, j, st) ==
    CHOOSE r \in { IF HasMetrics(after.metrics)
                   THEN [after EXCEPT !.cards = Append(@, NewCard(env, combos[j], j, after))]
                   ELSE after :
                   after \in {MetricLoop(env, combos[j], 1, [st EXCEPT !.metrics = <<>>])} } :
        TRUE

RECURSIVE ComboLoop(_, _, _, _)
ComboLoop(env, combos, j, st) ==
    IF j > Len(combos) THEN st
    ELSE CHOOSE r \in { ComboLoop(env, combos, j + 1, s) :
                          s \in {ComboStep(env, combos, j, st)} } :
             TRUE

\* Python's order on tuples: lexicographic, a proper prefix is smaller.
RECURSIVE TupleLess(_, _)
TupleLess(a, b) ==
    IF b = <<>> THEN FALSE
    ELSE IF a = <<>> THEN TRUE
    ELSE IF Head(a) # Head(b) THEN Head(a) < Head(b)
    ELSE TupleLess(Tail(a), Tail(b))

\* Mutant: an unstable insertion, a card is put before the cards of equal key.
RECURSIVE InsertBefore(_, _)
InsertBefore(sorted, c) ==
    IF sorted = <<>> THEN <<c>>
    ELSE IF ~TupleLess(Head(sorted).sort_key, c.sort_key)
         THEN <<c>> \o sorted
         ELSE <<Head(sorted)>> \o InsertBefore(Tail(sorted), c)

\* sorted(cards, key=lambda x: x[0]): a stable sort, each card is put after
\* every card whose key is not larger.
RECURSIVE Insert(_, _)
Insert(sorted, c) ==
    IF sorted = <<>> THEN <<c>>
    ELSE IF TupleLess(c.sort_key, Head(sorted).sort_key)
         THEN <<c>> \o sorted
         ELSE <<Head(sorted)>> \o Insert(Tail(sorted), c)

RECURSIVE SortFrom(_, _)
SortFrom(done, rest) ==
    IF rest = <<>> THEN done
    ELSE SortFrom(Insert(done, Head(rest)), Tail(rest))

\* Mutant: the cards are left as enumerated.
SortedNot(cs) == cs

Sorted(cs) == SortFrom(<<>>, cs)

\* cards[::-1]
Reversed(cs) == [i \in 1..Len(cs) |-> cs[Len(cs) + 1 - i]]

\* Mutant: the test of line 163 is lost.
SortWantedAlways(fields) == TRUE

\* Line 163: "if self.sort_fields:"
SortWanted(fields) == fields # <<>>

\* Lines 163-166.
Arrange(env, cs) ==
    IF SortWanted(env.sort_fields)
    THEN IF env.sort_reverse THEN Reversed(Sorted(cs)) ELSE Sorted(cs)
    ELSE cs

\* The whole pass: st carries _cache, the next view identity and the calls
\* made so far; the result's cards are the new content of _cards.
UpdateMetrics(env, st) ==
    LET start == [cache |-> st.cache, next_id |-> st.next_id,
                  trace |-> Append(st.trace, Event("_update_metrics", <<>>, FALSE)),
                  metrics |-> <<>>, cards |-> <<>>]
    IN  CHOOSE r \in { [done EXCEPT !.cards = Arrange(env, done.cards)] :
                       done \in {ComboLoop(env, Product(Facets(env.filters)), 1, start)} } :
            TRUE

\* The Monitor's fields a pass reads.
Env(flts, mets, fields, reverse, fv, src) ==
    [filters |-> flts, metrics |-> mets, sort_fields |-> fields,
     sort_reverse |-> reverse, fvalue |-> fv, source |-> src, title |-> "T"]

(***************************************************************************)
(* The Monitor: construction and handlers.                                 *)
(***************************************************************************)
ThisEnv == Env(filters, metrics, sort_fields, sort_reverse, fvalue, source)

Begin(calls) == [cache |-> cache, next_id |-> next_id, trace |-> calls]

\* Lines 79-82: _rerender watches 'value' of every entry that is no FacetFilter.
Watched(flts) == { i \in 1..Len(flts) : ~flts[i].facet }

RateOptions == {{}} \cup {{r} : r \in Rates}

\* Monitor.__init__ (lines 52-82), ending with the first pass over an empty
\* cache, for a Monitor built from the given choices. Every filter starts at
\* the value 0.
MonitorInit(FC, MC, SC, RC) ==
    /\ filters \in FC
    /\ metrics \in MC
    /\ sort_fields \in SC
    /\ sort_reverse \in BOOLEAN
    /\ refresh_rate \in RC
    /\ source \in 1..Len(Tables)
    /\ fvalue = [i \in 1..Len(filters) |-> 0]
    /\ sort_widget = sort_fields
    /\ reverse_widget = sort_reverse
    /\ reload_handler = "update"
    /\ stale = FALSE
    /\ cb = {}
    /\ callbacks = <<>>
    /\ pending = "none"
    /\ watchers = Watched(filters)
    /\ \E r \in { UpdateMetrics(
                      Env(filters, metrics, sort_fields, sort_reverse, fvalue, source),
                      [cache |-> <<>>, next_id |-> 1,
                       trace |-> <<Event("__init__", <<>>, FALSE)>>]) } :
           /\ cards = r.cards
           /\ cache = r.cache
           /\ next_id = r.next_id
           /\ trace = r.trace

\* What no handler of the Monitor assigns.
fixed == <<filters, metrics, reload_handler, watchers>>

\* The values the sort widget can take: lists of its options, the metric names.
SortChoices ==
    { f \in SortConfigs :
        \A i \in 1..Len(f) : \E j \in 1..Len(metrics) : metrics[j] = f[i] }

\* The pass of a handler: _cards and _cache are rewritten, calls is what the
\* handler did before the pass, its own entry first.
RunPass(env, calls, rerender) ==
    \E r \in {UpdateMetrics(env, Begin(calls))} :
        /\ cards' = r.cards
        /\ cache' = r.cache
        /\ next_id' = r.next_id
        /\ trace' = IF rerender
                    THEN Append(r.trace, Event("application._rerender", <<>>, FALSE))
                    ELSE r.trace

\* Monitor._resort (lines 84-89), run by a change of either widget.
Resort(sw, rw) ==
    /\ sort_fields' = sw
    /\ sort_reverse' = rw
    /\ RunPass(Env(filters, metrics, sw, rw, fvalue, source),
               <<Event("_resort", <<>>, FALSE)>>, TRUE)

SortWidgetChange ==
    /\ pending = "none"
    /\ \E v \in SortChoices :
          /\ v # sort_widget
          /\ sort_widget' = v
          /\ Resort(v, reverse_widget)
    /\ UNCHANGED <<fixed, refresh_rate, reverse_widget, stale, cb, fvalue,
                   source, callbacks, pending, appVars>>

ReverseWidgetChange ==
    /\ pending = "none"
    /\ reverse_widget' = ~reverse_widget
    /\ Resort(sort_widget, ~reverse_widget)
    /\ UNCHANGED <<fixed, refresh_rate, sort_widget, stale, cb, fvalue,
                   source, callbacks, pending, appVars>>

\* Mutant: _cb is never found set.
HasCallbackNever(c) == FALSE

\* Line 96: "if self._cb:"
HasCallback(c) == c # {}

\* Monitor.start (lines 91-101) for the rate in effect: {} is None.
StartWith(rate) ==
    IF rate = {} THEN UNCHANGED <<cb, callbacks>>
    ELSE LET p == CHOOSE r \in rate : TRUE
         IN  IF HasCallback(cb)
             THEN /\ callbacks' = [i \in 1..Len(callbacks) |->
                                      IF i \in cb THEN [callbacks[i] EXCEPT !.period = p]
                                      ELSE callbacks[i]]
                  /\ UNCHANGED cb
             ELSE /\ callbacks' = Append(callbacks, [fn |-> "update", period |-> p])
                  /\ cb' = {Len(callbacks) + 1}

\* The entry of start in the trace carries the rate in effect.
StartEntry(rate) ==
    <<Event("start", IF rate = {} THEN <<>> ELSE <<CHOOSE r \in rate : TRUE>>, FALSE)>>

\* start(event): event None ({}) reads self.refresh_rate, an event gives event.new.
Start ==
    /\ pending = "none"
    /\ Len(callbacks) < MaxCallbacks
    /\ \E event \in {{}} \cup {{[new |-> o]} : o \in RateOptions} :
          LET rate == IF event = {} THEN refresh_rate
                      ELSE (CHOOSE e \in event : TRUE).new
          IN  StartWith(rate) /\ trace' = StartEntry(rate)
    /\ UNCHANGED <<fixed, sort_fields, sort_reverse, refresh_rate, sort_widget,
                   reverse_widget, cards, cache, stale, fvalue, source, next_id,
                   pending, appVars>>

\* refresh_rate is set: the watcher of line 91 calls start() without an event.
SetRefreshRate ==
    /\ pending = "none"
    /\ Len(callbacks) < MaxCallbacks
    /\ \E o \in RateOptions :
          /\ o # refresh_rate
          /\ refresh_rate' = o
          /\ StartWith(o)
          /\ trace' = StartEntry(o)
    /\ UNCHANGED <<fixed, sort_fields, sort_reverse, sort_widget,
                   reverse_widget, cards, cache, stale, fvalue, source, next_id,
                   pending, appVars>>

\* Mutant: update forgets the source.
UpdateCallsNoSource ==
    <<Event("update", <<>>, FALSE), Event("timestamp", <<>>, FALSE)>>

\* The calls Monitor.update makes before its pass (lines 176-177).
UpdateCalls ==
    <<Event("update", <<>>, FALSE), Event("source.update", <<>>, FALSE),
      Event("timestamp", <<>>, FALSE)>>

\* Monitor.update (lines 175-178). Source.update() may change the table served.
Update ==
    \E s \in 1..Len(Tables) :
       /\ source' = s
       /\ RunPass(Env(filters, metrics, sort_fields, sort_reverse, fvalue, s),
                  UpdateCalls, FALSE)

\* A click on the reload button runs the handler of line 68.
Reload ==
    /\ pending = "none"
    /\ reload_handler = "update"
    /\ Update
    /\ UNCHANGED <<fixed, sort_fields, sort_reverse, refresh_rate, sort_widget,
                   reverse_widget, stale, cb, fvalue, callbacks, pending, appVars>>

\* A registered periodic callback fires and runs its function.
Tick ==
    /\ pending = "none"
    /\ \E i \in 1..Len(callbacks) : callbacks[i].fn = "update"
    /\ Update
    /\ UNCHANGED <<fixed, sort_fields, sort_reverse, refresh_rate, sort_widget,
                   reverse_widget, stale, cb, fvalue, callbacks, pending, appVars>>

\* The 'value' of an entry of filters changes; the watchers registered on it
\* are dispatched.
FilterEvent ==
    /\ pending = "none"
    /\ \E i \in 1..Len(filters), v \in WidgetValues :
          /\ v # fvalue[i]
          /\ fvalue' = [fvalue EXCEPT ![i] = v]
          /\ pending' = IF i \in watchers THEN "_rerender" ELSE "none"
    /\ trace' = <<>>
    /\ UNCHANGED <<fixed, sort_fields, sort_reverse, refresh_rate, sort_widget,
                   reverse_widget, cards, cache, stale, cb, source, callbacks,
                   next_id, appVars>>

\* Mutant: the early return of line 170 is lost.
RerenderAlways(st) == TRUE

\* Line 170: "if not self._stale: return"
RerenderWanted(st) == st

\* Monitor._rerender (lines 169-173).
Rerender ==
    /\ pending = "_rerender"
    /\ pending' = "none"
    /\ IF RerenderWanted(stale)
       THEN RunPass(ThisEnv, <<Event("_rerender", <<>>, FALSE)>>, TRUE)
       ELSE /\ trace' = <<Event("_rerender", <<>>, FALSE)>>
            /\ UNCHANGED <<cards, cache, next_id>>
    /\ UNCHANGED <<fixed, sort_fields, sort_reverse, refresh_rate, sort_widget,
                   reverse_widget, stale, cb, fvalue, source, callbacks, appVars>>

\* _stale is written by code outside the Monitor (the views, the application).
StaleWritten ==
    /\ pending = "none"
    /\ stale' = ~stale
    /\ trace' = <<>>
    /\ UNCHANGED <<fixed, sort_fields, sort_reverse, refresh_rate, sort_widget,
                   reverse_widget, cards, cache, cb, fvalue, source, callbacks,
                   next_id, pending, appVars>>

(***************************************************************************)
(* App (dashboard_app.py 21-47).                                           *)
(***************************************************************************)
Unset == [kind |-> "unset", msg |-> 0]
Nothing == [kind |-> "nothing", of |-> Unset]

\* App() (lines 26-30, 51): dashboard is None, nothing is scheduled or shown.
AppInit ==
    /\ dashboard = Unset
    /\ scheduled = 0
    /\ shown = Nothing
    /\ escaped = FALSE
    /\ stdout = [kind |-> "nothing", msg |-> 0]
    /\ last = "none"

\* Mutant: main never finds the dashboard set.
NotDashboardAlways(d) == TRUE

\* Line 34: "not self.dashboard" holds of None alone; a Dashboard and an HTML
\* pane are truthy.
NotDashboard(d) == d.kind = "unset"

\* App.main (lines 32-38).
Main ==
    /\ IF NotDashboard(dashboard)
       THEN /\ scheduled < MaxSched
            /\ scheduled' = scheduled + 1
            /\ shown' = [kind |-> "loading", of |-> Unset]
       ELSE /\ shown' = [kind |-> "layout", of |-> dashboard]
            /\ UNCHANGED scheduled
    /\ last' = "main"
    /\ UNCHANGED <<dashboard, escaped, stdout, monitorVars>>

\* Mutant: no handler, the Exception leaves update.
OnErrorRaise(d, e) ==
    [dashboard |-> d, stdout |-> [kind |-> "nothing", msg |-> 0], escaped |-> TRUE]

\* Lines 45-47: the handler of an Exception e raised in the try block.
OnError(d, e) ==
    [dashboard |-> [kind |-> "html", msg |-> e],
     stdout |-> [kind |-> "error", msg |-> e],
     escaped |-> FALSE]

\* Lines 42-44: the try block when Dashboard(...) returns.
OnBuilt ==
    [dashboard |-> [kind |-> "dashboard", msg |-> 0],
     stdout |-> [kind |-> "time", msg |-> 0],
     escaped |-> FALSE]

\* App.update (lines 40-47), run by a one-shot callback of line 35. The
\* construction returns (0) or raises the Exception e.
AppUpdate ==
    /\ scheduled > 0
    /\ scheduled' = scheduled - 1
    /\ \E e \in {0} \cup Errors :
          LET r == IF e = 0 THEN OnBuilt ELSE OnError(dashboard, e)
          IN  /\ dashboard' = r.dashboard
              /\ stdout' = r.stdout
              /\ escaped' = (escaped \/ r.escaped)
    /\ last' = "update"
    /\ UNCHANGED <<shown, monitorVars>>

\* No App beside the Monitor.
AppIdle == AppInit

\* No Monitor beside the App.
MonitorIdle ==
    /\ MonitorInit({<<>>}, {<<>>}, {<<>>}, {{}})
    /\ source = 1
    /\ ~sort_reverse

(***************************************************************************)
(* Spec: a Monitor of any configuration, its passes, sorting and filters.  *)
(***************************************************************************)
Init == MonitorInit(FilterConfigs, MetricConfigs, SortConfigs, {{}}) /\ AppIdle

Next ==
    \/ SortWidgetChange
    \/ ReverseWidgetChange
    \/ Reload
    \/ FilterEvent
    \/ Rerender
    \/ StaleWritten

Spec == Init /\ [][Next]_vars

(***************************************************************************)
(* SpecRefresh: periodic and on-demand refresh of a Monitor.               *)
(***************************************************************************)
RefreshFilters == { <<FacetX, WidgetFilter, FacetY>>, <<FacetNum>> }
RefreshMetrics == { <<"m1", "m2">>, <<"m1", "m1">> }

InitRefresh ==
    MonitorInit(RefreshFilters, RefreshMetrics, {<<"m1">>}, RateOptions) /\ AppIdle

NextRefresh ==
    \/ Start
    \/ SetRefreshRate
    \/ Reload
    \/ Tick

SpecRefresh == InitRefresh /\ [][NextRefresh]_vars

(***************************************************************************)
(* SpecApp: the App from its construction on.                              *)
(***************************************************************************)
InitApp == AppInit /\ MonitorIdle

NextApp ==
    \/ Main
    \/ AppUpdate

SpecApp == InitApp /\ [][NextApp]_vars

(***************************************************************************)
(* Properties.                                                             *)
(***************************************************************************)
\* The number of facet combinations: the product of the sizes of the
\* sub-filter lists of the FacetFilter entries.
RECURSIVE NumCombos(_)
NumCombos(flts) ==
    IF flts = <<>> THEN 1
    ELSE (IF Head(flts).facet THEN Len(Head(flts).filters) ELSE 1)
         * NumCombos(Tail(flts))

NoFacet == \A i \in 1..Len(filters) : ~filters[i].facet

\* Combination j of the enumeration has a truthy view for some metric.
Produced(j) ==
    \E i \in 1..Len(metrics) :
       LET k == MetricKey(Product(Facets(filters))[j], metrics[i])
       IN  k \in DOMAIN cache /\ ~cache[k].empty

CardsOf(j) == { n \in 1..Len(cards) : cards[n].combo = j }

OneCardPerCombination ==
    /\ \A n \in 1..Len(cards) : cards[n].combo \in 1..NumCombos(filters)
    /\ \A j \in 1..NumCombos(filters) :
          Cardinality(CardsOf(j)) = IF Produced(j) THEN 1 ELSE 0
    /\ Len(cards) <= NumCombos(filters)

\* C1 as stated: one card for each facet combination that produced a metric
\* view, non-facet filters do not multiply the cards, and with no FacetFilter
\* there is exactly one card, titled with the monitor title.
C1_Original ==
    /\ OneCardPerCombination
    /\ NoFacet => /\ Len(cards) = 1
                  /\ \A n \in 1..Len(cards) : cards[n].title = <<"T">>

\* C1 amended: as C1, but with no FacetFilter there is at most one card,
\* titled with the monitor title, and exactly one only when a metric view was
\* produced.
C1_OneCardPerCombination ==
    /\ OneCardPerCombination
    /\ NoFacet => /\ Len(cards) = (IF Produced(1) THEN 1 ELSE 0)
                  /\ \A n \in 1..Len(cards) : cards[n].title = <<"T">>
    /\ ~NoFacet => \A n \in 1..Len(cards) :
                      cards[n].title = FacetTitle(Product(Facets(filters))[cards[n].combo])

\* A filter change has re-run the pass of a Monitor with two facets and a
\* widget filter, and one of the four combinations has no card.
C1_Witness ==
    /\ Len(filters) = 3
    /\ trace # <<>> /\ trace[1].op = "_rerender"
    /\ Len(cards) = 3

Count(tr, op, key) ==
    Cardinality({ n \in 1..Len(tr) : tr[n].op = op /\ tr[n].key = key })

CountOp(tr, op) == Cardinality({ n \in 1..Len(tr) : tr[n].op = op })

\* How many (combination, metric) rounds of a pass meet the cache key k.
Visits(k) ==
    LET combos == Product(Facets(filters))
    IN  Cardinality({ <<j, i>> \in (1..Len(combos)) \X (1..Len(metrics)) :
                        MetricKey(combos[j], metrics[i]) = k })

\* C3: a view is constructed at most once per cache key (as many views have
\* been constructed as there are keys, each its own object); no step removes
\* or replaces an entry of _cache, and a step constructs a view only for a key
\* not cached before it and calls update(rerender=False) on the cached ones.
C3_ViewBuiltOnce ==
    /\ [](/\ next_id - 1 = Cardinality(DOMAIN cache)
          /\ \A k1, k2 \in DOMAIN cache : cache[k1].id = cache[k2].id => k1 = k2)
    /\ [][/\ \A k \in DOMAIN cache :
                /\ k \in DOMAIN cache'
                /\ cache'[k].id = cache[k].id
                /\ (CountOp(trace', "_update_metrics") = 1 /\ Visits(k) > 0) =>
                      Count(trace', "view.update", k) >= 1
          /\ \A n \in 1..Len(trace') :
                /\ trace'[n].op = "View" => trace'[n].key \notin DOMAIN cache
                /\ trace'[n].op = "view.update" => ~trace'[n].rerender]_vars

\* A refresh after construction has reused the cached views of several keys.
C3_Witness ==
    /\ trace # <<>> /\ trace[1].op = "update"
    /\ Cardinality(DOMAIN cache) >= 4
    /\ \A k \in DOMAIN cache : Count(trace, "view.update", k) >= 1

\* The sort key of card n from the current values of its metrics.
CurrentKey(n) == SortKey(sort_fields, cards[n].views, cache)

\* C4: with sort_fields non-empty the cards are ordered by their sort key,
\* ascending when sort_reverse is False and descending when it is True.
C4_SortedByKey ==
    sort_fields # <<>> =>
        \A n \in 1..Len(cards) :
           /\ cards[n].sort_key = CurrentKey(n)
           /\ n < Len(cards) =>
                 IF sort_reverse
                 THEN ~TupleLess(CurrentKey(n), CurrentKey(n + 1))
                 ELSE ~TupleLess(CurrentKey(n + 1), CurrentKey(n))

\* After _resort, four cards sorted on two fields stand in another order than
\* enumerated.
C4_Witness ==
    /\ trace # <<>> /\ trace[1].op = "_resort"
    /\ sort_fields = <<"m2", "m1">>
    /\ ~sort_reverse
    /\ Len(cards) = 4
    /\ \E n \in 1..3 : /\ cards[n].combo > cards[n + 1].combo
                       /\ TupleLess(CurrentKey(n), CurrentKey(n + 1))

\* C5 as stated: with sort_fields non-empty, cards of equal sort key keep the
\* order of the enumeration, whatever sort_reverse is.
C5_Original ==
    sort_fields # <<>> =>
        \A a, b \in 1..Len(cards) :
           (a < b /\ CurrentKey(a) = CurrentKey(b)) => cards[a].combo < cards[b].combo

\* C5 amended: cards of equal sort key keep the order of the enumeration when
\* sort_reverse is False and stand in the reverse of it when sort_reverse is
\* True.
C5_StableUpToReverse ==
    sort_fields # <<>> =>
        \A a, b \in 1..Len(cards) :
           (a < b /\ CurrentKey(a) = CurrentKey(b)) =>
               IF sort_reverse THEN cards[a].combo > cards[b].combo
               ELSE cards[a].combo < cards[b].combo

\* After a reload, reversed cards: two of equal key beside one of another key.
C5_Witness ==
    /\ trace # <<>> /\ trace[1].op = "update"
    /\ sort_fields = <<"m1">>
    /\ sort_reverse
    /\ \E a, b, c \in 1..Len(cards) :
          /\ a < b
          /\ CurrentKey(a) = CurrentKey(b)
          /\ CurrentKey(c) # CurrentKey(a)

\* C6: at most one periodic callback is registered, and it runs update; a
\* start with rate None changes nothing, the first start with a rate
\* registers update with that period, a later one only sets the period.
C6_OneCallback ==
    /\ [](/\ Len(callbacks) <= 1
          /\ cb = 1..Len(callbacks)
          /\ \A i \in 1..Len(callbacks) : callbacks[i].fn = "update")
    /\ [][(trace' # <<>> /\ trace'[1].op = "start") =>
             LET rate == trace'[1].key
             IN  IF rate = <<>> THEN UNCHANGED <<cb, callbacks>>
                 ELSE /\ callbacks' = <<[fn |-> "update", period |-> rate[1]]>>
                      /\ cb' = {1}
                      /\ callbacks # <<>> => cb = {1}]_vars

\* A later start has given the one callback a period that is not
\* refresh_rate.
C6_Witness ==
    /\ trace # <<>> /\ trace[1].op = "start" /\ trace[1].key # <<>>
    /\ refresh_rate # {}
    /\ Len(callbacks) = 1
    /\ callbacks[1].period \notin refresh_rate

UpdateOrder ==
    /\ reload_handler = "update"
    /\ \A i \in 1..Len(callbacks) : callbacks[i].fn = "update"
    /\ (trace # <<>> /\ trace[1].op = "update") =>
          /\ Len(trace) >= 4
          /\ trace[2].op = "source.update"
          /\ trace[3].op = "timestamp"
          /\ trace[4].op = "_update_metrics"
          /\ CountOp(trace, "source.update") = 1
          /\ CountOp(trace, "_update_metrics") = 1
          /\ CountOp(trace, "application._rerender") = 0
          /\ \A n \in 5..Len(trace) :
                trace[n].op = "view.update" /\ ~trace[n].rerender

\* C7 as stated: reload and the periodic callback both run update, which
\* calls source.update() once, rewrites the timestamp, then makes one pass
\* that updates every cached view of the current combinations exactly once
\* with rerender=False, and never calls application._rerender.
C7_Original ==
    /\ UpdateOrder
    /\ (trace # <<>> /\ trace[1].op = "update") =>
          \A k \in DOMAIN cache :
             Visits(k) > 0 => Count(trace, "view.update", k) = 1

\* C7 amended: as C7, but a cached view is updated once for every
\* (combination, metric) pair of the pass that has its cache key: at least
\* once, and more than once when two pairs share the key.
C7_UpdateOrder ==
    /\ UpdateOrder
    /\ (trace # <<>> /\ trace[1].op = "update") =>
          \A k \in DOMAIN cache :
             /\ Count(trace, "view.update", k) = Visits(k)
             /\ Visits(k) >= 1

\* A periodic or on-demand update has updated one view four times.
C7_Witness ==
    /\ trace # <<>> /\ trace[1].op = "update"
    /\ callbacks # <<>>
    /\ \E k \in DOMAIN cache : Count(trace, "view.update", k) = 4

\* C8: _rerender watches the value of the non-facet filters alone; run after
\* such a change it makes one pass and calls application._rerender once if
\* _stale is True and changes nothing if _stale is False; a change of a
\* FacetFilter entry's value runs nothing.
C8_ConditionalRerender ==
    /\ [](watchers = { i \in 1..Len(filters) : ~filters[i].facet })
    /\ [][(pending = "_rerender" /\ pending' = "none") =>
             IF stale
             THEN /\ trace'[1].op = "_rerender"
                  /\ CountOp(trace', "_update_metrics") = 1
                  /\ CountOp(trace', "application._rerender") = 1
                  /\ trace'[Len(trace')].op = "application._rerender"
             ELSE /\ trace' = <<Event("_rerender", <<>>, FALSE)>>
                  /\ UNCHANGED <<cards, cache, next_id>>]_vars
    /\ [][\A i \in 1..Len(filters) :
             fvalue'[i] # fvalue[i] =>
                 IF filters[i].facet
                 THEN /\ pending' = "none"
                      /\ trace' = <<>>
                      /\ UNCHANGED <<cards, cache, next_id>>
                 ELSE pending' = "_rerender"]_vars

\* _rerender has run after a filter change with _stale False.
C8_Witness ==
    /\ trace = <<Event("_rerender", <<>>, FALSE)>>
    /\ ~stale
    /\ \E i \in 1..Len(filters) : fvalue[i] # 0
    /\ Len(cards) >= 2

\* C10: with sort_fields empty the cards stand in the order of the
\* enumeration whatever sort_reverse is; _resort copies the widget values
\* into sort_fields and sort_reverse, makes one pass and calls
\* application._rerender once.
C10_NoSortNoReorder ==
    /\ sort_fields = <<>> =>
          \A a, b \in 1..Len(cards) : a < b => cards[a].combo < cards[b].combo
    /\ (trace # <<>> /\ trace[1].op = "_resort") =>
          /\ sort_fields = sort_widget
          /\ sort_reverse = reverse_widget
          /\ CountOp(trace, "_update_metrics") = 1
          /\ CountOp(trace, "application._rerender") = 1
          /\ trace[Len(trace)].op = "application._rerender"

\* _resort has emptied sort_fields with sort_reverse True, several cards.
C10_Witness ==
    /\ trace # <<>> /\ trace[1].op = "_resort"
    /\ sort_fields = <<>>
    /\ sort_reverse
    /\ Len(cards) >= 3

\* C2: no Exception leaves App.update; after a failed construction
\* App.dashboard is the HTML error message of that Exception, and App.main
\* then returns its layout, not the spinner.
C2_ErrorShown ==
    /\ ~escaped
    /\ last = "update" => dashboard.kind # "unset"
    /\ stdout.kind = "error" => dashboard = [kind |-> "html", msg |-> stdout.msg]
    /\ (last = "main" /\ dashboard.kind = "html") =>
          shown = [kind |-> "layout", of |-> dashboard]

\* main has returned the layout of an error message.
C2_Witness ==
    /\ last = "main"
    /\ dashboard.kind = "html"
    /\ shown = [kind |-> "layout", of |-> dashboard]

\* C9: main returns the spinner and schedules one update exactly while
\* dashboard is unset; once update has run dashboard is set and stays set,
\* and main then returns the layout and schedules nothing.
C9_LoadingLifeCycle ==
    /\ [](/\ stdout.kind # "nothing" => dashboard.kind # "unset"
          /\ (last = "main" /\ dashboard.kind = "unset") =>
                shown.kind = "loading" /\ scheduled >= 1
          /\ (last = "main" /\ dashboard.kind # "unset") =>
                shown = [kind |-> "layout", of |-> dashboard])
    /\ [][/\ dashboard.kind # "unset" =>
                /\ dashboard'.kind # "unset"
                /\ scheduled' <= scheduled
                /\ shown'.kind # "loading" \/ shown' = shown
          /\ (dashboard.kind = "unset" /\ last' = "main") =>
                scheduled' = scheduled + 1 /\ shown'.kind = "loading"]_vars

\* main has returned the layout of a built dashboard while a further update
\* is still scheduled.
C9_Witness ==
    /\ last = "main"
    /\ dashboard.kind = "dashboard"
    /\ shown.kind = "layout"
    /\ scheduled >= 1

====
